---------------------------- MODULE Spec2Model ----------------------------
(***************************************************************************)
(* A model of the left-leaning red-black tree of src/llrb/src/lib.rs:      *)
(* BST<T> with its node arena (nodes), its root handle and its free list   *)
(* (deleted_indices), and the public operations new, singleton, len,       *)
(* is_empty, member, insert, clear and take_min.                           *)
(*                                                                         *)
(* Elements are the integers 1..MaxElem with their usual order (T: Ord).   *)
(* A Ptr is the 0-based index it wraps; slot i of the Vec is nodes[i+1].   *)
(* A panic (expect/unwrap on None, index out of bounds) is recorded in     *)
(* the panic field and aborts whatever was running.                        *)
(***************************************************************************)
EXTENDS Integers, Sequences, FiniteSets, TLC

VARIABLES nodes, root, deleted_indices, panic, last, model_set

vars == <<nodes, root, deleted_indices, panic, last, model_set>>

\* Largest element of the element domain.
MaxElem == 5

Elems == 1..MaxElem

\* Option::None for Option<Ptr> and Option<T> (Ptr values are >= 0, elements >= 1).
None == -1

Red == "Red"

Black == "Black"

\* impl Not for Color
Not(c) == IF c = Red THEN Black ELSE Red

\* Node::new
Node_new(elem, color) ==
  [some |-> TRUE, elem |-> elem, color |-> color, left |-> None, right |-> None]

\* An arena slot holding Option::None.
NoneNode ==
  [some |-> FALSE, elem |-> 0, color |-> Black, left |-> None, right |-> None]

NoPanic == "no panic"

IndexMsg == "index out of bounds"

DerefMsg == "deref encounters a reference to a deleted node"

DerefMutMsg == "deref_mut encounters a reference to a deleted node"

RotateLeftMsg == "rotate left on node whose left child is nil"

RotateRightMsg == "rotate right on node whose left child is nil"

FlipLeftMsg == "move red up/down on node whose left child is nil"

FlipRightMsg == "move red up/down on node whose right child is nil"

UnwrapMsg == "called Option::unwrap() on a None value"

TakeMinMsg == "take_min_impl: leftmost node is already deleted"

SubOverflowMsg == "attempt to subtract with overflow"

\* The first panic wins: the operation is aborted at that point.
Panic(t, msg) == IF t.panic = NoPanic THEN [t EXCEPT !.panic = msg] ELSE t

\* The panic that BST::deref(&Ptr(i)) raises in t, NoPanic when it raises none.
DerefFault(t, i) ==
  IF i < 0 \/ i >= Len(t.nodes) THEN IndexMsg
  ELSE IF ~t.nodes[i + 1].some THEN DerefMsg
  ELSE NoPanic

\* The panic that BST::deref_mut(&Ptr(i)) raises in t, NoPanic when it raises none.
DerefMutFault(t, i) ==
  IF i < 0 \/ i >= Len(t.nodes) THEN IndexMsg
  ELSE IF ~t.nodes[i + 1].some THEN DerefMutMsg
  ELSE NoPanic

\* The node BST::deref and BST::deref_mut give for a slot on which they raise
\* no panic.
deref(t, i) == t.nodes[i + 1]

\* BST::new
new == [nodes |-> << >>, root |-> None, deleted_indices |-> << >>, panic |-> NoPanic]

\* BST::singleton
singleton(elem) ==
  [nodes |-> << Node_new(elem, Black) >>, root |-> 0,
   deleted_indices |-> << >>, panic |-> NoPanic]

\* The panics the subtraction of BST::len can raise: none when it does not
\* underflow; on underflow a build with overflow checks panics and one without
\* wraps around.
len_faults(t) ==
  IF Len(t.nodes) >= Len(t.deleted_indices) THEN {NoPanic} ELSE {SubOverflowMsg, NoPanic}

\* The usize 2^64 - k, k > 0, that a wrapping subtraction leaves: a number beyond
\* the integers TLC holds, kept as its distance k below 2^64.
Wrapped(k) == [two_pow_64_minus |-> k]

\* BST::len: nodes.len() - deleted_indices.len() in usize arithmetic; when the
\* subtraction underflows and does not panic (len_faults), it wraps around.
len(t) ==
  IF Len(t.nodes) >= Len(t.deleted_indices)
  THEN Len(t.nodes) - Len(t.deleted_indices)
  ELSE Wrapped(Len(t.deleted_indices) - Len(t.nodes))

\* BST::is_empty
is_empty(t) == t.root = None

RECURSIVE member_impl(_, _, _)
\* member_impl with the two descents of lines 72-73 exchanged; C1 fails on it.
member_impl_swapped(t, ptr, elem) ==
  IF ptr = None THEN [ret |-> FALSE, panic |-> NoPanic]
  ELSE IF DerefFault(t, ptr) # NoPanic THEN [ret |-> FALSE, panic |-> DerefFault(t, ptr)]
  ELSE LET node == deref(t, ptr) IN
       IF node.elem < elem THEN member_impl(t, node.left, elem)
       ELSE IF node.elem > elem THEN member_impl(t, node.right, elem)
       ELSE [ret |-> TRUE, panic |-> NoPanic]

\* BST::member_impl: [ret, panic], the answer and the panic raised on the way.
member_impl(t, ptr, elem) ==
  IF ptr = None THEN [ret |-> FALSE, panic |-> NoPanic]
  ELSE IF DerefFault(t, ptr) # NoPanic THEN [ret |-> FALSE, panic |-> DerefFault(t, ptr)]
  ELSE LET node == deref(t, ptr) IN
       IF node.elem < elem THEN member_impl(t, node.right, elem)
       ELSE IF node.elem > elem THEN member_impl(t, node.left, elem)
       ELSE [ret |-> TRUE, panic |-> NoPanic]

\* BST::member
member(t, elem) == member_impl(t, t.root, elem)

\* The panic that is_red(ptr) raises in t, NoPanic when it raises none.
is_red_fault(t, ptr) == IF ptr = None THEN NoPanic ELSE DerefFault(t, ptr)

\* BST::is_red, where is_red_fault is NoPanic.
is_red(t, ptr) == ptr # None /\ deref(t, ptr).color = Red

\* rotate_left without line 90: h keeps x as its right child while x takes h as
\* its left child, a cycle; C11 fails on it.
rotate_left_keeps_right(t, h) ==
  IF t.panic # NoPanic THEN [t |-> t, p |-> h]
  ELSE IF DerefFault(t, h) # NoPanic THEN [t |-> Panic(t, DerefFault(t, h)), p |-> h]
  ELSE LET x == deref(t, h).right IN
       IF x = None THEN [t |-> Panic(t, RotateLeftMsg), p |-> h]
       ELSE IF DerefFault(t, x) # NoPanic THEN [t |-> Panic(t, DerefFault(t, x)), p |-> h]
       ELSE LET n2 == [t.nodes EXCEPT ![x + 1].left = h]
                n3 == [n2 EXCEPT ![x + 1].color = n2[h + 1].color]
                n4 == [n3 EXCEPT ![h + 1].color = Red]
            IN [t |-> [t EXCEPT !.nodes = n4], p |-> x]

\* rotate_left without line 93, h keeping its colour; C5 fails on it.
rotate_left_keeps_color(t, h) ==
  IF t.panic # NoPanic THEN [t |-> t, p |-> h]
  ELSE IF DerefFault(t, h) # NoPanic THEN [t |-> Panic(t, DerefFault(t, h)), p |-> h]
  ELSE LET x == deref(t, h).right IN
       IF x = None THEN [t |-> Panic(t, RotateLeftMsg), p |-> h]
       ELSE IF DerefFault(t, x) # NoPanic THEN [t |-> Panic(t, DerefFault(t, x)), p |-> h]
       ELSE LET n1 == [t.nodes EXCEPT ![h + 1].right = t.nodes[x + 1].left]
                n2 == [n1 EXCEPT ![x + 1].left = h]
                n3 == [n2 EXCEPT ![x + 1].color = n2[h + 1].color]
            IN [t |-> [t EXCEPT !.nodes = n3], p |-> x]

\* BST::rotate_left: [t, p], the tree after the rotation and the new subtree root.
rotate_left(t, h) ==
  IF t.panic # NoPanic THEN [t |-> t, p |-> h]
  ELSE IF DerefFault(t, h) # NoPanic THEN [t |-> Panic(t, DerefFault(t, h)), p |-> h]
  ELSE LET x == deref(t, h).right IN
       IF x = None THEN [t |-> Panic(t, RotateLeftMsg), p |-> h]
       ELSE IF DerefFault(t, x) # NoPanic THEN [t |-> Panic(t, DerefFault(t, x)), p |-> h]
       ELSE LET n1 == [t.nodes EXCEPT ![h + 1].right = t.nodes[x + 1].left]
                n2 == [n1 EXCEPT ![x + 1].left = h]
                n3 == [n2 EXCEPT ![x + 1].color = n2[h + 1].color]
                n4 == [n3 EXCEPT ![h + 1].color = Red]
            IN [t |-> [t EXCEPT !.nodes = n4], p |-> x]

\* rotate_right without line 99: h keeps x as its left child while x takes h as
\* its right child; C13 fails on it.
rotate_right_keeps_left(t, h) ==
  IF t.panic # NoPanic THEN [t |-> t, p |-> h]
  ELSE IF DerefFault(t, h) # NoPanic THEN [t |-> Panic(t, DerefFault(t, h)), p |-> h]
  ELSE LET x == deref(t, h).left IN
       IF x = None THEN [t |-> Panic(t, RotateRightMsg), p |-> h]
       ELSE IF DerefFault(t, x) # NoPanic THEN [t |-> Panic(t, DerefFault(t, x)), p |-> h]
       ELSE LET n2 == [t.nodes EXCEPT ![x + 1].right = h]
                n3 == [n2 EXCEPT ![x + 1].color = n2[h + 1].color]
                n4 == [n3 EXCEPT ![h + 1].color = Red]
            IN [t |-> [t EXCEPT !.nodes = n4], p |-> x]

\* BST::rotate_right: [t, p], the tree after the rotation and the new subtree root.
rotate_right(t, h) ==
  IF t.panic # NoPanic THEN [t |-> t, p |-> h]
  ELSE IF DerefFault(t, h) # NoPanic THEN [t |-> Panic(t, DerefFault(t, h)), p |-> h]
  ELSE LET x == deref(t, h).left IN
       IF x = None THEN [t |-> Panic(t, RotateRightMsg), p |-> h]
       ELSE IF DerefFault(t, x) # NoPanic THEN [t |-> Panic(t, DerefFault(t, x)), p |-> h]
       ELSE LET n1 == [t.nodes EXCEPT ![h + 1].left = t.nodes[x + 1].right]
                n2 == [n1 EXCEPT ![x + 1].right = h]
                n3 == [n2 EXCEPT ![x + 1].color = n2[h + 1].color]
                n4 == [n3 EXCEPT ![h + 1].color = Red]
            IN [t |-> [t EXCEPT !.nodes = n4], p |-> x]

\* BST::move_red_up_or_down: the tree with the colours of h and its two children toggled.
move_red_up_or_down(t, h) ==
  IF t.panic # NoPanic THEN t
  ELSE IF DerefFault(t, h) # NoPanic THEN Panic(t, DerefFault(t, h))
  ELSE LET n1 == [t.nodes EXCEPT ![h + 1].color = Not(t.nodes[h + 1].color)]
           t1 == [t EXCEPT !.nodes = n1]
           left == n1[h + 1].left
       IN IF left = None THEN Panic(t1, FlipLeftMsg)
          ELSE IF DerefFault(t1, left) # NoPanic THEN Panic(t1, DerefFault(t1, left))
          ELSE LET n2 == [n1 EXCEPT ![left + 1].color = Not(n1[left + 1].color)]
                   t2 == [t EXCEPT !.nodes = n2]
                   right == n2[h + 1].right
               IN IF right = None THEN Panic(t2, FlipRightMsg)
                  ELSE IF DerefFault(t2, right) # NoPanic
                       THEN Panic(t2, DerefFault(t2, right))
                  ELSE [t EXCEPT !.nodes =
                          [n2 EXCEPT ![right + 1].color = Not(n2[right + 1].color)]]

\* fixup without its first `if`: no left rotation; C14 fails on it.
fixup_rotate_left_never(t, node) == [t |-> t, p |-> node]

\* First `if` of BST::fixup (lines 115-117): lean a lone red right link to the left.
fixup_rotate_left(t, node) ==
  IF t.panic # NoPanic THEN [t |-> t, p |-> node]
  ELSE IF DerefFault(t, node) # NoPanic
       THEN [t |-> Panic(t, DerefFault(t, node)), p |-> node]
  ELSE IF is_red_fault(t, deref(t, node).right) # NoPanic
       THEN [t |-> Panic(t, is_red_fault(t, deref(t, node).right)), p |-> node]
  ELSE IF ~is_red(t, deref(t, node).right) THEN [t |-> t, p |-> node]
  ELSE IF is_red_fault(t, deref(t, node).left) # NoPanic
       THEN [t |-> Panic(t, is_red_fault(t, deref(t, node).left)), p |-> node]
  ELSE IF ~is_red(t, deref(t, node).left) THEN rotate_left(t, node)
  ELSE [t |-> t, p |-> node]

\* fixup without its second `if`: no right rotation; C6 fails on it.
fixup_rotate_right_never(t, node) == [t |-> t, p |-> node]

\* Second `if` of BST::fixup (lines 118-120): two red links in a row on the left.
fixup_rotate_right(t, node) ==
  IF t.panic # NoPanic THEN [t |-> t, p |-> node]
  ELSE IF DerefFault(t, node) # NoPanic
       THEN [t |-> Panic(t, DerefFault(t, node)), p |-> node]
  ELSE LET left == deref(t, node).left IN
       IF is_red_fault(t, left) # NoPanic
       THEN [t |-> Panic(t, is_red_fault(t, left)), p |-> node]
       ELSE IF ~is_red(t, left) THEN [t |-> t, p |-> node]
       ELSE IF is_red_fault(t, deref(t, left).left) # NoPanic
            THEN [t |-> Panic(t, is_red_fault(t, deref(t, left).left)), p |-> node]
       ELSE IF is_red(t, deref(t, left).left) THEN rotate_right(t, node)
       ELSE [t |-> t, p |-> node]

\* fixup without its third `if`: 4-nodes are never split; C20 fails on it.
fixup_flip_never(t, node) == [t |-> t, p |-> node]

\* Third `if` of BST::fixup (lines 121-123): split a 4-node.
fixup_flip(t, node) ==
  IF t.panic # NoPanic THEN [t |-> t, p |-> node]
  ELSE IF DerefFault(t, node) # NoPanic
       THEN [t |-> Panic(t, DerefFault(t, node)), p |-> node]
  ELSE IF is_red_fault(t, deref(t, node).left) # NoPanic
       THEN [t |-> Panic(t, is_red_fault(t, deref(t, node).left)), p |-> node]
  ELSE IF ~is_red(t, deref(t, node).left) THEN [t |-> t, p |-> node]
  ELSE IF is_red_fault(t, deref(t, node).right) # NoPanic
       THEN [t |-> Panic(t, is_red_fault(t, deref(t, node).right)), p |-> node]
  ELSE IF is_red(t, deref(t, node).right)
       THEN [t |-> move_red_up_or_down(t, node), p |-> node]
  ELSE [t |-> t, p |-> node]

\* BST::fixup: [t, p], the repaired tree and the new subtree root.
fixup(t, node) ==
  LET a == fixup_rotate_left(t, node)
      b == fixup_rotate_right(a.t, a.p)
  IN fixup_flip(b.t, b.p)

\* deref_mut(&node).right = Some(new_right), line 144.
set_right(t, node, new_right) ==
  IF t.panic # NoPanic THEN t
  ELSE IF DerefMutFault(t, node) # NoPanic THEN Panic(t, DerefMutFault(t, node))
  ELSE [t EXCEPT !.nodes[node + 1].right = new_right]

\* deref_mut(&node).left = Some(new_left), lines 149 and 198.
set_left(t, node, new_left) ==
  IF t.panic # NoPanic THEN t
  ELSE IF DerefMutFault(t, node) # NoPanic THEN Panic(t, DerefMutFault(t, node))
  ELSE [t EXCEPT !.nodes[node + 1].left = new_left]

\* deref_mut(&node).color = Color::Black, lines 162 and 218.
set_black(t, node) ==
  IF t.panic # NoPanic THEN t
  ELSE IF DerefMutFault(t, node) # NoPanic THEN Panic(t, DerefMutFault(t, node))
  ELSE [t EXCEPT !.nodes[node + 1].color = Black]

\* The None arm taking the oldest entry of the free list instead of the newest
\* (first in, first out); C15 fails on it.
allocate_fifo(t, elem) ==
  IF t.deleted_indices # << >>
  THEN LET index == Head(t.deleted_indices)
           t1 == [t EXCEPT !.deleted_indices = Tail(t.deleted_indices)]
       IN IF index < 0 \/ index >= Len(t.nodes)
          THEN [t |-> Panic(t1, IndexMsg), p |-> index]
          ELSE [t |-> [t1 EXCEPT !.nodes[index + 1] = Node_new(elem, Red)], p |-> index]
  ELSE [t |-> [t EXCEPT !.nodes = Append(t.nodes, Node_new(elem, Red))],
        p |-> Len(t.nodes)]

\* The None arm of BST::insert_impl (lines 129-138): a new red node in the slot
\* popped from the free list, or in a slot pushed at the end of the arena.
allocate(t, elem) ==
  IF t.deleted_indices # << >>
  THEN LET n == Len(t.deleted_indices)
           index == t.deleted_indices[n]
           t1 == [t EXCEPT !.deleted_indices = SubSeq(t.deleted_indices, 1, n - 1)]
       IN IF index < 0 \/ index >= Len(t.nodes)
          THEN [t |-> Panic(t1, IndexMsg), p |-> index]
          ELSE [t |-> [t1 EXCEPT !.nodes[index + 1] = Node_new(elem, Red)], p |-> index]
  ELSE [t |-> [t EXCEPT !.nodes = Append(t.nodes, Node_new(elem, Red))],
        p |-> Len(t.nodes)]

\* Lines 144 and 153: relink the right child to r.p, the subtree returned by the
\* recursive call, then fixup(node).
link_right(r, node) == fixup(set_right(r.t, node, r.p), node)

\* Lines 149 and 153, lines 198-199: relink the left child to r.p, then fixup(node).
link_left(r, node) == fixup(set_left(r.t, node, r.p), node)

RECURSIVE insert_impl(_, _, _)
\* insert_impl with the arms of lines 141 and 146 exchanged: a greater element
\* goes to the left; C4 fails on it.
insert_impl_swapped(t, node, elem) ==
  IF t.panic # NoPanic THEN [t |-> t, p |-> node]
  ELSE IF node = None THEN allocate(t, elem)
  ELSE IF DerefFault(t, node) # NoPanic
       THEN [t |-> Panic(t, DerefFault(t, node)), p |-> node]
  ELSE IF deref(t, node).elem > elem
       THEN link_right(insert_impl(t, deref(t, node).right, elem), node)
  ELSE IF deref(t, node).elem < elem
       THEN link_left(insert_impl(t, deref(t, node).left, elem), node)
  ELSE fixup([t EXCEPT !.nodes[node + 1].elem = elem], node)

\* insert_impl with the arm of line 146 descending to the right as well; C16
\* fails on it.
insert_impl_always_right(t, node, elem) ==
  IF t.panic # NoPanic THEN [t |-> t, p |-> node]
  ELSE IF node = None THEN allocate(t, elem)
  ELSE IF DerefFault(t, node) # NoPanic
       THEN [t |-> Panic(t, DerefFault(t, node)), p |-> node]
  ELSE IF deref(t, node).elem < elem
       THEN link_right(insert_impl(t, deref(t, node).right, elem), node)
  ELSE IF deref(t, node).elem > elem
       THEN link_right(insert_impl(t, deref(t, node).right, elem), node)
  ELSE fixup([t EXCEPT !.nodes[node + 1].elem = elem], node)

\* insert_impl with the Equal arm of line 151 treated as Less: an element the
\* tree holds is inserted once more, to the right; C17 fails on it.
insert_impl_equal_goes_right(t, node, elem) ==
  IF t.panic # NoPanic THEN [t |-> t, p |-> node]
  ELSE IF node = None THEN allocate(t, elem)
  ELSE IF DerefFault(t, node) # NoPanic
       THEN [t |-> Panic(t, DerefFault(t, node)), p |-> node]
  ELSE IF deref(t, node).elem <= elem
       THEN link_right(insert_impl(t, deref(t, node).right, elem), node)
  ELSE link_left(insert_impl(t, deref(t, node).left, elem), node)

\* BST::insert_impl: [t, p], the tree after the insertion below node and the
\* handle of the subtree that replaces node.
insert_impl(t, node, elem) ==
  IF t.panic # NoPanic THEN [t |-> t, p |-> node]
  ELSE IF node = None THEN allocate(t, elem)
  ELSE IF DerefFault(t, node) # NoPanic
       THEN [t |-> Panic(t, DerefFault(t, node)), p |-> node]
  ELSE IF deref(t, node).elem < elem
       THEN link_right(insert_impl(t, deref(t, node).right, elem), node)
  ELSE IF deref(t, node).elem > elem
       THEN link_left(insert_impl(t, deref(t, node).left, elem), node)
  ELSE fixup([t EXCEPT !.nodes[node + 1].elem = elem], node)

\* insert without line 162: the new root keeps its colour; C7 fails on it.
insert_root_no_recolor(r) ==
  IF r.t.panic # NoPanic THEN r.t ELSE [r.t EXCEPT !.root = r.p]

\* Lines 161-162 of BST::insert: install the new root r.p and colour it black.
insert_root(r) ==
  IF r.t.panic # NoPanic THEN r.t ELSE set_black([r.t EXCEPT !.root = r.p], r.p)

\* BST::insert
insert(t, elem) == insert_root(insert_impl(t, t.root, elem))

\* clear without line 168: the free list keeps its entries; C12 fails on it.
clear_keeps_free_list(t) == [t EXCEPT !.root = None, !.nodes = << >>]

\* clear without line 166: the root handle stays; C19 fails on it.
clear_keeps_root(t) == [t EXCEPT !.nodes = << >>, !.deleted_indices = << >>]

\* BST::clear
clear(t) == [t EXCEPT !.root = None, !.nodes = << >>, !.deleted_indices = << >>]

\* The assignment of line 174: h.right = Some(r.p).
set_right_to(r, h) == set_right(r.t, h, r.p)

\* Line 174 of BST::move_red_left: h.right = h.right.map(|right| rotate_right(right)).
rotate_right_child(t, h) ==
  IF t.panic # NoPanic THEN t
  ELSE IF DerefFault(t, h) # NoPanic THEN Panic(t, DerefFault(t, h))
  ELSE IF deref(t, h).right = None THEN t
  ELSE set_right_to(rotate_right(t, deref(t, h).right), h)

\* Line 176: the second colour flip, on the subtree root the rotations returned.
flip_rotated(r) == [t |-> move_red_up_or_down(r.t, r.p), p |-> r.p]

\* move_red_left without lines 173-177: the colour flip alone, no rotation;
\* C18 fails on it.
move_red_left_flip_only(t1, h) == [t |-> t1, p |-> h]

\* Lines 173-178 of BST::move_red_left, on the tree t1 that the flip of line 172 left.
move_red_left_rest(t1, h) ==
  IF t1.panic # NoPanic THEN [t |-> t1, p |-> h]
  ELSE IF deref(t1, h).right = None THEN [t |-> Panic(t1, UnwrapMsg), p |-> h]
  ELSE IF DerefFault(t1, deref(t1, h).right) # NoPanic
       THEN [t |-> Panic(t1, DerefFault(t1, deref(t1, h).right)), p |-> h]
  ELSE IF is_red_fault(t1, deref(t1, deref(t1, h).right).left) # NoPanic
       THEN [t |-> Panic(t1, is_red_fault(t1, deref(t1, deref(t1, h).right).left)),
             p |-> h]
  ELSE IF is_red(t1, deref(t1, deref(t1, h).right).left)
       THEN flip_rotated(rotate_left(rotate_right_child(t1, h), h))
  ELSE [t |-> t1, p |-> h]

\* BST::move_red_left: [t, p], the tree with a red link pushed into the left
\* subtree of h and the new subtree root.
move_red_left(t, h) == move_red_left_rest(move_red_up_or_down(t, h), h)

\* take_min_impl without the test of line 193: move_red_left on every descent;
\* C10 fails on it.
ensure_not_two_node_always(t, node) == move_red_left(t, node)

\* Lines 193-195 of BST::take_min_impl: make sure the left child is not a 2-node.
ensure_not_two_node(t, node) ==
  LET left == deref(t, node).left IN
  IF is_red_fault(t, left) # NoPanic
  THEN [t |-> Panic(t, is_red_fault(t, left)), p |-> node]
  ELSE IF is_red(t, left) THEN [t |-> t, p |-> node]
  ELSE IF is_red_fault(t, deref(t, left).left) # NoPanic
       THEN [t |-> Panic(t, is_red_fault(t, deref(t, left).left)), p |-> node]
  ELSE IF is_red(t, deref(t, left).left) THEN [t |-> t, p |-> node]
  ELSE move_red_left(t, node)

\* The None arm without line 185: the freed slot is not recorded; C8 fails on it.
free_no_push(t, node) ==
  IF node < 0 \/ node >= Len(t.nodes) THEN [t |-> Panic(t, IndexMsg), min |-> None, p |-> None]
  ELSE IF ~t.nodes[node + 1].some THEN [t |-> Panic(t, TakeMinMsg), min |-> None, p |-> None]
  ELSE [t |-> [t EXCEPT !.nodes[node + 1] = NoneNode],
        min |-> t.nodes[node + 1].elem, p |-> None]

\* The None arm of BST::take_min_impl (lines 183-187): free the slot of node.
free(t, node) ==
  LET t1 == [t EXCEPT !.deleted_indices = Append(t.deleted_indices, node)] IN
  IF node < 0 \/ node >= Len(t.nodes) THEN [t |-> Panic(t1, IndexMsg), min |-> None, p |-> None]
  ELSE IF ~t.nodes[node + 1].some THEN [t |-> Panic(t1, TakeMinMsg), min |-> None, p |-> None]
  ELSE [t |-> [t1 EXCEPT !.nodes[node + 1] = NoneNode],
        min |-> t.nodes[node + 1].elem, p |-> None]

RECURSIVE take_min_impl(_, _)
\* Line 199: the pair (min, Some(fixup(node))), f being what fixup returned.
with_min(f, min) == [t |-> f.t, min |-> min, p |-> f.p]

\* take_min_impl without line 198: the left link still names the freed slot;
\* C3 fails on it.
take_min_unwind_no_relink(r, node) ==
  IF r.t.panic # NoPanic THEN [t |-> r.t, min |-> None, p |-> None]
  ELSE with_min(fixup(r.t, node), r.min)

\* Lines 198-199 of BST::take_min_impl, r being what the recursive call returned.
take_min_unwind(r, node) ==
  IF r.t.panic # NoPanic THEN [t |-> r.t, min |-> None, p |-> None]
  ELSE with_min(link_left(r, node), r.min)

\* Lines 196-199 of BST::take_min_impl, m being the tree and the node after
\* lines 193-195.
take_min_descend(m) ==
  IF m.t.panic # NoPanic THEN [t |-> m.t, min |-> None, p |-> None]
  ELSE IF DerefMutFault(m.t, m.p) # NoPanic
       THEN [t |-> Panic(m.t, DerefMutFault(m.t, m.p)), min |-> None, p |-> None]
  ELSE IF deref(m.t, m.p).left = None
       THEN [t |-> Panic(m.t, UnwrapMsg), min |-> None, p |-> None]
  ELSE take_min_unwind(take_min_impl(m.t, deref(m.t, m.p).left), m.p)

\* BST::take_min_impl: [t, min, p], the tree without the minimum of the subtree
\* of node, that minimum, and the handle of the subtree that replaces node.
take_min_impl(t, node) ==
  IF t.panic # NoPanic THEN [t |-> t, min |-> None, p |-> None]
  ELSE IF DerefFault(t, node) # NoPanic
       THEN [t |-> Panic(t, DerefFault(t, node)), min |-> None, p |-> None]
  ELSE IF deref(t, node).left = None THEN free(t, node)
  ELSE take_min_descend(ensure_not_two_node(t, node))

\* Lines 217-219 of BST::take_min: install the new root r.p, colour it black and
\* return the minimum.
take_min_root(r) ==
  IF r.t.panic # NoPanic THEN [t |-> r.t, ret |-> None]
  ELSE IF r.p = None
       THEN [t |-> Panic([r.t EXCEPT !.root = None], UnwrapMsg), ret |-> None]
  ELSE [t |-> set_black([r.t EXCEPT !.root = r.p], r.p), ret |-> r.min]

\* take_min with self.root.unwrap() in place of self.root.map(..); C9 fails on it.
take_min_unwrap_root(t) ==
  IF t.root = None THEN [t |-> Panic(t, UnwrapMsg), ret |-> None]
  ELSE IF DerefFault(t, t.root) # NoPanic
       THEN [t |-> Panic(t, DerefFault(t, t.root)), ret |-> None]
  ELSE IF deref(t, t.root).left = None
       THEN [t |-> [t EXCEPT !.root = None, !.deleted_indices = << >>, !.nodes = << >>],
             ret |-> deref(t, t.root).elem]
  ELSE take_min_root(take_min_impl(t, t.root))

\* take_min with right.is_none() in place of left.is_none() on line 207; C2
\* fails on it.
take_min_right_check(t) ==
  IF t.root = None THEN [t |-> t, ret |-> None]
  ELSE IF DerefFault(t, t.root) # NoPanic
       THEN [t |-> Panic(t, DerefFault(t, t.root)), ret |-> None]
  ELSE IF deref(t, t.root).right = None
       THEN [t |-> [t EXCEPT !.root = None, !.deleted_indices = << >>, !.nodes = << >>],
             ret |-> deref(t, t.root).elem]
  ELSE take_min_root(take_min_impl(t, t.root))

\* BST::take_min: [t, ret], the tree after the call and the Option<T> it returns.
take_min(t) ==
  IF t.root = None THEN [t |-> t, ret |-> None]
  ELSE IF DerefFault(t, t.root) # NoPanic
       THEN [t |-> Panic(t, DerefFault(t, t.root)), ret |-> None]
  ELSE IF deref(t, t.root).left = None
       THEN [t |-> [t EXCEPT !.root = None, !.deleted_indices = << >>, !.nodes = << >>],
             ret |-> deref(t, t.root).elem]
  ELSE take_min_root(take_min_impl(t, t.root))

-----------------------------------------------------------------------------
(* The state machine: one BST<T> value and the calls made on it.  last records *)
(* the latest call that took &mut self (or the constructor), its argument and   *)
(* what it returned; model_set is the mathematical set obtained by replaying    *)
(* the same calls.  The &self calls (member, len, is_empty) leave the value as  *)
(* it is: all they can change is panic.                                         *)

\* The BST value held in the variables.
State ==
  [nodes |-> nodes, root |-> root, deleted_indices |-> deleted_indices, panic |-> panic]

\* The variables take the fields of t.
Install(t) ==
  /\ nodes' = t.nodes
  /\ root' = t.root
  /\ deleted_indices' = t.deleted_indices
  /\ panic' = t.panic

\* take_min returned [t, ret]: the variables take t, last records ret.
TakeMinReturned(r) ==
  /\ Install(r.t)
  /\ last' = [op |-> "take_min", arg |-> None, ret |-> r.ret]

\* The smallest element of a non-empty set of elements.
Min(S) == CHOOSE x \in S : \A y \in S : x <= y

\* let tree = BST::new()
InitNew ==
  /\ nodes = new.nodes
  /\ root = new.root
  /\ deleted_indices = new.deleted_indices
  /\ panic = new.panic
  /\ last = [op |-> "new", arg |-> None, ret |-> None]
  /\ model_set = {}

\* let tree = BST::singleton(e)
InitSingleton ==
  \E e \in Elems :
    /\ nodes = singleton(e).nodes
    /\ root = singleton(e).root
    /\ deleted_indices = singleton(e).deleted_indices
    /\ panic = singleton(e).panic
    /\ last = [op |-> "singleton", arg |-> e, ret |-> None]
    /\ model_set = {e}

Init == InitNew \/ InitSingleton

\* tree.insert(e)
Insert ==
  \E e \in Elems :
    /\ panic = NoPanic
    /\ Install(insert(State, e))
    /\ last' = [op |-> "insert", arg |-> e, ret |-> None]
    /\ model_set' = model_set \cup {e}

\* tree.take_min()
TakeMin ==
  /\ panic = NoPanic
  /\ TakeMinReturned(take_min(State))
  /\ model_set' = IF model_set = {} THEN {} ELSE model_set \ {Min(model_set)}

\* tree.clear()
Clear ==
  /\ panic = NoPanic
  /\ Install(clear(State))
  /\ last' = [op |-> "clear", arg |-> None, ret |-> None]
  /\ model_set' = {}

\* tree.member(&e)
Member ==
  \E e \in Elems :
    /\ panic = NoPanic
    /\ panic' = member(State, e).panic
    /\ UNCHANGED <<nodes, root, deleted_indices, last, model_set>>

\* tree.len()
LenCall ==
  /\ panic = NoPanic
  /\ panic' \in len_faults(State)
  /\ UNCHANGED <<nodes, root, deleted_indices, last, model_set>>

\* tree.is_empty()
IsEmptyCall ==
  /\ panic = NoPanic
  /\ UNCHANGED <<nodes, root, deleted_indices, panic, last, model_set>>

Next == Insert \/ TakeMin \/ Clear \/ Member \/ LenCall \/ IsEmptyCall

Spec == Init /\ [][Next]_vars

-----------------------------------------------------------------------------
(* What can be observed of a tree: its members, its in-order traversal, its   *)
(* black height, the handles reachable from the root.  The walks take a fuel   *)
(* of one more than the number of slots, so they are total on any link graph.  *)

\* The elements member() answers true for.
Mem(t) == {x \in Elems : member(t, x).ret}

\* More steps than any walk down an acyclic tree in the arena of t can take.
Fuel(t) == Len(t.nodes) + 1

RECURSIVE InOrder(_, _, _)
\* The elements met by an in-order walk from ptr; <<0, 0>> stands for a link to
\* a slot that holds no node or for a walk that ran out of fuel.
InOrder(t, ptr, fuel) ==
  IF ptr = None THEN << >>
  ELSE IF fuel = 0 \/ DerefFault(t, ptr) # NoPanic THEN <<0, 0>>
  ELSE InOrder(t, deref(t, ptr).left, fuel - 1) \o << deref(t, ptr).elem >>
       \o InOrder(t, deref(t, ptr).right, fuel - 1)

StrictlyAscending(s) == \A i \in 1..(Len(s) - 1) : s[i] < s[i + 1]

RECURSIVE BlackCounts(_, _, _)
\* The numbers of black nodes on the paths from ptr to an empty link, one number
\* for each path; {0, 1} stands for a link to a slot that holds no node or for a
\* walk that ran out of fuel.
BlackCounts(t, ptr, fuel) ==
  IF ptr = None THEN {0}
  ELSE IF fuel = 0 \/ DerefFault(t, ptr) # NoPanic THEN {0, 1}
  ELSE LET below == BlackCounts(t, deref(t, ptr).left, fuel - 1)
                    \cup BlackCounts(t, deref(t, ptr).right, fuel - 1)
       IN IF deref(t, ptr).color = Black THEN {c + 1 : c \in below} ELSE below

RECURSIVE Reachable(_, _, _)
\* The handles met by following left and right links from ptr.
Reachable(t, ptr, fuel) ==
  IF ptr = None \/ fuel = 0 \/ DerefFault(t, ptr) # NoPanic THEN {}
  ELSE {ptr} \cup Reachable(t, deref(t, ptr).left, fuel - 1)
             \cup Reachable(t, deref(t, ptr).right, fuel - 1)

\* The handles of the tree held in the variables.
TreeNodes == Reachable(State, root, Fuel(State))

RECURSIVE SortedSeq(_)
\* The elements of S in increasing order.
SortedSeq(S) == IF S = {} THEN << >> ELSE << Min(S) >> \o SortedSeq(S \ {Min(S)})

RECURSIVE drain(_, _)
\* d with the result x put in front of its results.
prepend(x, d) == [t |-> d.t, out |-> << x >> \o d.out]

\* r is what the first of k calls did: when it returned, the k - 1 others follow
\* on r.t; when it panicked, the loop is left, no result and no further call.
drain_next(r, k) ==
  IF r.t.panic # NoPanic THEN [t |-> r.t, out |-> << >>]
  ELSE prepend(r.ret, drain(r.t, k - 1))

\* take_min called k times in a row on t, as in the loops of tests::taking_minimum:
\* [t, out], the tree left and the results in order, k of them unless a call
\* panicked.
drain(t, k) ==
  IF k = 0 \/ t.panic # NoPanic THEN [t |-> t, out |-> << >>]
  ELSE drain_next(take_min(t), k)

-----------------------------------------------------------------------------
\* C1: member(x) is true exactly for the x of the set obtained by replaying the
\* calls (insert adds, take_min removes the smallest, clear empties) on a
\* mathematical set, for every x of the element domain.
C1_MemberRefinesSet ==
  panic = NoPanic =>
    \A x \in Elems : member(State, x) = [ret |-> (x \in model_set), panic |-> NoPanic]

\* C1 happens: after inserts and a take_min that freed a slot, an insert left a
\* tree of at least three members with a non-member between two of them.
C1_Witness ==
  /\ last.op = "insert"
  /\ deleted_indices # << >>
  /\ Cardinality(Mem(State)) >= 3
  /\ \E y \in Elems \ Mem(State) : \E x, z \in Mem(State) : x < y /\ y < z

\* C2: take_min on a non-empty tree returns the smallest element of the set and
\* removes exactly that element: the members afterwards are the members before
\* without it.
C2_TakeMinRemovesSmallest ==
  [][(last'.op = "take_min" /\ Mem(State) # {} /\ panic = NoPanic) =>
       /\ panic' = NoPanic
       /\ last'.ret = Min(Mem(State))
       /\ Mem(State)' = Mem(State) \ {Min(Mem(State))}]_vars

\* C2 happens: take_min returned an element and left at least three others.
C2_Witness ==
  /\ last.op = "take_min" /\ last.ret # None
  /\ Cardinality(Mem(State)) >= 3
  /\ \A x \in Mem(State) : last.ret < x

\* C3: from any state holding n elements, n + 1 calls of take_min in a row return
\* the n elements in increasing order and then the empty result, and leave a
\* tree for which is_empty() is true and len() is 0.
C3_DrainIsSorted ==
  panic = NoPanic =>
    LET d == drain(State, Cardinality(Mem(State)) + 1) IN
      /\ d.t.panic = NoPanic
      /\ d.out = SortedSeq(Mem(State)) \o << None >>
      /\ is_empty(d.t)
      /\ len(d.t) = 0

\* C3 happens: a tree of at least four elements, reached through a take_min that
\* freed a slot, from which the calls in a row start.
C3_Witness ==
  /\ last.op = "take_min"
  /\ Cardinality(Mem(State)) >= 4
  /\ deleted_indices # << >>
  /\ Len(drain(State, Cardinality(Mem(State)) + 1).out) = Cardinality(Mem(State)) + 1

\* C4: after every public operation the in-order traversal from the root is
\* strictly ascending.
C4_InOrderAscending ==
  panic = NoPanic => StrictlyAscending(InOrder(State, root, Fuel(State)))

\* C4 happens: an insert left a tree whose traversal has at least five elements
\* and whose root is not the first slot, so a rotation moved the root.
C4_Witness ==
  /\ last.op = "insert"
  /\ Len(InOrder(State, root, Fuel(State))) >= 5
  /\ root # 0

\* C5: after every public operation every path from the root to an empty link
\* passes through the same number of black nodes.
C5_BlackBalance ==
  panic = NoPanic => Cardinality(BlackCounts(State, root, Fuel(State))) = 1

\* C5 happens: a take_min left a tree of at least four elements whose paths
\* all pass through two black nodes.
C5_Witness ==
  /\ last.op = "take_min"
  /\ Cardinality(Mem(State)) >= 4
  /\ BlackCounts(State, root, Fuel(State)) = {2}

\* C6: after every public operation no red node of the tree has a red child,
\* left or right.
C6_NoRedRed ==
  panic = NoPanic =>
    \A p \in TreeNodes :
      is_red(State, p) =>
        /\ ~is_red(State, deref(State, p).left)
        /\ ~is_red(State, deref(State, p).right)

\* C6 happens: the tree holds a red node that has two (black) children.
C6_Witness ==
  \E p \in TreeNodes :
    /\ is_red(State, p)
    /\ deref(State, p).left # None
    /\ deref(State, p).right # None

\* C7: whenever the tree is non-empty after a public operation, its root is black.
C7_RootBlack ==
  (panic = NoPanic /\ root # None) =>
    (DerefFault(State, root) = NoPanic /\ deref(State, root).color = Black)

\* C7 happens: a take_min left a tree of at least three elements whose root has
\* two black children, the shape on which the next take_min flips the root.
C7_Witness ==
  /\ last.op = "take_min" /\ last.ret # None
  /\ root # None
  /\ deref(State, root).left # None /\ ~is_red(State, deref(State, root).left)
  /\ deref(State, root).right # None /\ ~is_red(State, deref(State, root).right)

\* C8: len() is the number of distinct elements of the set before and after every
\* operation; inserting an absent element raises it by one, inserting a present
\* element leaves it, and a take_min that returns an element lowers it by one.
C8_LenCountsElements ==
  [][panic = NoPanic =>
       /\ len(State) = Cardinality(model_set)
       /\ panic' = NoPanic => len(State)' = Cardinality(model_set')
       /\ (last'.op = "insert" /\ ~member(State, last'.arg).ret) => len(State)' = len(State) + 1
       /\ (last'.op = "insert" /\ member(State, last'.arg).ret) => len(State)' = len(State)
       /\ (last'.op = "take_min" /\ last'.ret # None) => len(State)' = len(State) - 1]_vars

\* C8 happens: an insert of an absent element filled a freed slot of an arena of
\* at least four slots, so len() counts fewer elements than the arena has slots
\* before, and one more after.
C8_Witness ==
  /\ last.op = "insert"
  /\ Len(nodes) >= 4
  /\ deleted_indices # << >>
  /\ len(State) = Cardinality(Mem(State))
  /\ len(State) >= 3

\* C9: take_min on an empty tree returns the empty result and leaves the root,
\* the arena and the free list as they were.
C9_TakeMinOnEmpty ==
  [][(last'.op = "take_min" /\ root = None /\ panic = NoPanic) =>
       /\ last'.ret = None
       /\ panic' = NoPanic
       /\ UNCHANGED <<nodes, root, deleted_indices>>]_vars

\* C9 happens: take_min returned the empty result.
C9_Witness == last.op = "take_min" /\ last.ret = None /\ root = None

\* C10: no sequence of public operations panics.
C10_NoPanic == panic = NoPanic

\* C10 happens: a take_min went through a tree of at least four slots and left at
\* least three elements, without a panic.
C10_Witness ==
  /\ panic = NoPanic
  /\ last.op = "take_min" /\ last.ret # None
  /\ Len(nodes) >= 4
  /\ len(State) >= 3

-----------------------------------------------------------------------------
(* The recursive descents, counted: the number of child links that            *)
(* member_impl, insert_impl and take_min_impl follow before they stop          *)
(* recursing.  fuel bounds the count, so the counters are total on any link    *)
(* graph; a descent that would not end uses all of it.                         *)

RECURSIVE member_links(_, _, _, _)
\* The child links BST::member_impl follows from ptr when looking for elem.
member_links(t, ptr, elem, fuel) ==
  IF ptr = None \/ fuel = 0 THEN 0
  ELSE IF DerefFault(t, ptr) # NoPanic THEN 0
  ELSE IF deref(t, ptr).elem < elem
       THEN 1 + member_links(t, deref(t, ptr).right, elem, fuel - 1)
  ELSE IF deref(t, ptr).elem > elem
       THEN 1 + member_links(t, deref(t, ptr).left, elem, fuel - 1)
  ELSE 0

RECURSIVE insert_links(_, _, _, _)
\* The child links BST::insert_impl follows from node when inserting elem (the
\* descent changes no link before it has reached its end).
insert_links(t, node, elem, fuel) ==
  IF node = None \/ fuel = 0 THEN 0
  ELSE IF DerefFault(t, node) # NoPanic THEN 0
  ELSE IF deref(t, node).elem < elem
       THEN 1 + insert_links(t, deref(t, node).right, elem, fuel - 1)
  ELSE IF deref(t, node).elem > elem
       THEN 1 + insert_links(t, deref(t, node).left, elem, fuel - 1)
  ELSE 0

RECURSIVE take_min_links(_, _, _)
\* Lines 196-197 of BST::take_min_impl: the link followed into the left child of
\* m.p, the node that lines 193-195 left in place of the one visited.
take_min_links_next(m, fuel) ==
  IF m.t.panic # NoPanic THEN 0
  ELSE IF DerefMutFault(m.t, m.p) # NoPanic THEN 0
  ELSE IF deref(m.t, m.p).left = None THEN 0
  ELSE 1 + take_min_links(m.t, deref(m.t, m.p).left, fuel - 1)

\* The child links BST::take_min_impl follows from node until it is at a node
\* without a left child.
take_min_links(t, node, fuel) ==
  IF fuel = 0 \/ t.panic # NoPanic THEN 0
  ELSE IF DerefFault(t, node) # NoPanic THEN 0
  ELSE IF deref(t, node).left = None THEN 0
  ELSE take_min_links_next(ensure_not_two_node(t, node), fuel)

\* The larger of two numbers.
Max(a, b) == IF a >= b THEN a ELSE b

RECURSIVE Height(_, _, _)
\* The number of nodes on the longest path from ptr to an empty link.
Height(t, ptr, fuel) ==
  IF ptr = None \/ fuel = 0 THEN 0
  ELSE IF DerefFault(t, ptr) # NoPanic THEN 0
  ELSE 1 + Max(Height(t, deref(t, ptr).left, fuel - 1),
               Height(t, deref(t, ptr).right, fuel - 1))

\* The height of the tree held in the variables.
TreeHeight == Height(State, root, Fuel(State))

\* The links take_min_impl follows when take_min is called on the tree held in
\* the variables (none when take_min does not call it, lines 205-213).
TakeMinLinks ==
  IF root = None THEN 0
  ELSE IF DerefFault(State, root) # NoPanic THEN 0
  ELSE IF deref(State, root).left = None THEN 0
  ELSE take_min_links(State, root, 2 * Fuel(State))

-----------------------------------------------------------------------------
(* A second state machine, for trees taller than the domain 1..MaxElem gives: *)
(* from new(), the elements of DeepSeq are inserted in order, and take_min,    *)
(* clear and the &self calls may come at any point.                            *)

\* The elements inserted, in this order.
DeepSeq ==
  << 11, 1, 22, 12, 19, 15, 5, 10, 17, 14, 20, 18, 13, 16, 6, 4, 3, 7, 2, 9, 8, 21 >>

DeepElems == {DeepSeq[i] : i \in DOMAIN DeepSeq}

\* tree.insert(e), e being the element of DeepSeq that follows those in the set.
InsertScript ==
  LET k == Cardinality(model_set) IN
    /\ panic = NoPanic
    /\ k < Len(DeepSeq)
    /\ model_set = {DeepSeq[i] : i \in 1..k}
    /\ Install(insert(State, DeepSeq[k + 1]))
    /\ last' = [op |-> "insert", arg |-> DeepSeq[k + 1], ret |-> None]
    /\ model_set' = model_set \cup {DeepSeq[k + 1]}

\* tree.member(&e), e being an element of DeepSeq.
MemberScript ==
  \E e \in DeepElems :
    /\ panic = NoPanic
    /\ panic' = member(State, e).panic
    /\ UNCHANGED <<nodes, root, deleted_indices, last, model_set>>

NextDeep == InsertScript \/ TakeMin \/ Clear \/ MemberScript \/ LenCall \/ IsEmptyCall

SpecDeep == InitNew /\ [][NextDeep]_vars

-----------------------------------------------------------------------------
\* C11 as stated: the tree is finite and acyclic, and member_impl, insert_impl
\* and take_min_impl each stop after following at most height-many child links.
C11_HeightManySteps ==
  panic = NoPanic =>
    /\ TreeHeight <= len(State)
    /\ \A x \in DeepElems :
         /\ member_links(State, root, x, Fuel(State)) <= TreeHeight
         /\ insert_links(State, root, x, Fuel(State)) <= TreeHeight
    /\ TakeMinLinks <= TreeHeight

\* C11, amended: the tree is finite and acyclic; member_impl and insert_impl stop
\* after following at most height-many child links, and take_min_impl after
\* following fewer than twice height-many, since after the rotations of
\* move_red_left it visits the same node a second time.
C11_DescentsTerminate ==
  panic = NoPanic =>
    /\ TreeHeight <= len(State)
    /\ \A x \in DeepElems :
         /\ member_links(State, root, x, Fuel(State)) <= TreeHeight
         /\ insert_links(State, root, x, Fuel(State)) <= TreeHeight
    /\ root # None => TakeMinLinks < 2 * TreeHeight

\* C11 happens: on a tree of height five, take_min_impl follows six links, and
\* member_impl follows four to the deepest element.
C11_Witness ==
  /\ panic = NoPanic
  /\ TreeHeight = 5
  /\ TakeMinLinks = 6
  /\ \E x \in DeepElems : member_links(State, root, x, Fuel(State)) = TreeHeight - 1

-----------------------------------------------------------------------------
(* The arena seen as a graph: its occupied slots and the links that name them. *)

\* The handles of the slots that hold a node.
Occupied == {i \in 0..(Len(nodes) - 1) : nodes[i + 1].some}

\* The links that name handle i: the root field, or the left or right field of
\* an occupied slot j.
InLinks(i) ==
  {<<None, "root">> : x \in {root} \cap {i}}
    \cup {<<j, "left">> : j \in {k \in Occupied : nodes[k + 1].left = i}}
    \cup {<<j, "right">> : j \in {k \in Occupied : nodes[k + 1].right = i}}

\* Every handle some link holds.
LinkTargets ==
  ({root} \cup {nodes[j + 1].left : j \in Occupied}
          \cup {nodes[j + 1].right : j \in Occupied}) \ {None}

RECURSIVE Preorder(_, _, _)
\* The handles met walking down from ptr, one entry per path; None stands for a
\* link to a slot that holds no node or for a walk that ran out of fuel.
Preorder(t, ptr, fuel) ==
  IF ptr = None THEN << >>
  ELSE IF fuel = 0 \/ DerefFault(t, ptr) # NoPanic THEN << None >>
  ELSE << ptr >> \o Preorder(t, deref(t, ptr).left, fuel - 1)
                 \o Preorder(t, deref(t, ptr).right, fuel - 1)

\* The walk from the root of the tree held in the variables.
TreeWalk == Preorder(State, root, Fuel(State))

-----------------------------------------------------------------------------
\* C12: the free list holds exactly the indices of the unoccupied arena slots,
\* each exactly once, so len() is the number of occupied slots.
C12_FreeListIsUnoccupied ==
  /\ \A j \in DOMAIN deleted_indices :
       /\ deleted_indices[j] \in 0..(Len(nodes) - 1)
       /\ ~nodes[deleted_indices[j] + 1].some
  /\ \A i \in 0..(Len(nodes) - 1) :
       Cardinality({j \in DOMAIN deleted_indices : deleted_indices[j] = i})
         = IF nodes[i + 1].some THEN 0 ELSE 1
  /\ len(State) = Cardinality(Occupied)

\* C12 happens: a take_min left two freed slots next to occupied ones.
C12_Witness ==
  /\ last.op = "take_min"
  /\ Len(deleted_indices) >= 2
  /\ Cardinality(Occupied) >= 2
  /\ len(State) = Cardinality(Occupied)

\* C13: the links form a tree over exactly the occupied slots: each occupied
\* slot is named by exactly one link, no link names an unoccupied slot, and no
\* slot is reached from the root along two different paths.
C13_LinksFormTree ==
  /\ \A i \in Occupied : Cardinality(InLinks(i)) = 1
  /\ LinkTargets \subseteq Occupied
  /\ \A a, b \in DOMAIN TreeWalk : TreeWalk[a] = TreeWalk[b] => a = b
  /\ {TreeWalk[a] : a \in DOMAIN TreeWalk} = Occupied

\* C13 happens: after a take_min, four nodes linked as a tree beside a freed slot.
C13_Witness ==
  /\ last.op = "take_min"
  /\ Cardinality(Occupied) = 4
  /\ deleted_indices # << >>
  /\ Len(TreeWalk) = 4
  /\ \A i \in Occupied : Cardinality(InLinks(i)) = 1

\* C14: a root without a left child has no right child either and is the only
\* element, so the reset of lines 209-211 discards no other element.
C14_LoneRoot ==
  (root # None /\ DerefFault(State, root) = NoPanic /\ deref(State, root).left = None)
    => /\ deref(State, root).right = None
       /\ len(State) = 1
       /\ Occupied = {root}

\* C14 happens: a take_min left a root without a left child in an arena that
\* has freed slots, the state the resetting branch of take_min starts from.
C14_Witness ==
  /\ last.op = "take_min"
  /\ root # None
  /\ deref(State, root).left = None
  /\ deref(State, root).right = None
  /\ Len(nodes) >= 3
  /\ len(State) = 1

\* A step that is an insert of an element the set does not hold.
InsertsNew == last'.op = "insert" /\ last'.arg \notin model_set

\* A step that is a take_min removing an element.
TakesMin == last'.op = "take_min" /\ model_set' # model_set

\* take_min either resets the arena and the free list, or frees one slot and
\* puts its index on top of the free list.
FreedOnTop ==
  \/ nodes' = << >> /\ deleted_indices' = << >>
  \/ /\ Len(nodes') = Len(nodes)
     /\ \E i \in Occupied :
          /\ ~nodes'[i + 1].some
          /\ deleted_indices' = Append(deleted_indices, i)

\* insert stores the new node in the slot on top of the free list and takes
\* that entry off, the arena keeping its size.
ReusedFromTop ==
  LET n == Len(deleted_indices) IN
    /\ Len(nodes') = Len(nodes)
    /\ deleted_indices' = SubSeq(deleted_indices, 1, n - 1)
    /\ nodes'[deleted_indices[n] + 1].some
    /\ nodes'[deleted_indices[n] + 1].elem = last'.arg
    /\ \A i \in Occupied : nodes'[i + 1].some /\ nodes'[i + 1].elem = nodes[i + 1].elem

\* insert stores the new node in a slot added at the end of the arena.
GrownByOne ==
  /\ nodes' # << >>
  /\ Len(nodes') = Len(nodes) + 1
  /\ nodes'[Len(nodes')].some
  /\ nodes'[Len(nodes')].elem = last'.arg
  /\ deleted_indices' = << >>

\* C15: the free list is a stack: take_min pushes the slot it frees, and an
\* insert that creates a node takes the slot freed most recently among those
\* not yet reused, the arena keeping its size; the arena grows, by one slot,
\* only when the free list is empty.
C15_LifoReuse ==
  [][ /\ TakesMin => FreedOnTop
      /\ (InsertsNew /\ deleted_indices # << >>) => ReusedFromTop
      /\ (InsertsNew /\ deleted_indices = << >>) => GrownByOne
      /\ Len(nodes') > Len(nodes) => (InsertsNew /\ deleted_indices = << >>) ]_vars

\* C15 happens: the last insert put the smallest element in a slot while other
\* elements and freed slots exist, so that slot is one take_min had freed.
C15_Witness ==
  /\ last.op = "insert"
  /\ last.arg = Min(model_set)
  /\ Len(deleted_indices) >= 1
  /\ Cardinality(model_set) >= 2
  /\ \E i \in Occupied : nodes[i + 1].elem = last.arg

RECURSIVE insert_visits(_, _, _, _)
\* The non-empty nodes BST::insert_impl is called on when elem is inserted
\* below node.
insert_visits(t, node, elem, fuel) ==
  IF node = None \/ fuel = 0 THEN {}
  ELSE IF DerefFault(t, node) # NoPanic THEN {}
  ELSE IF deref(t, node).elem < elem
       THEN {node} \cup insert_visits(t, deref(t, node).right, elem, fuel - 1)
  ELSE IF deref(t, node).elem > elem
       THEN {node} \cup insert_visits(t, deref(t, node).left, elem, fuel - 1)
  ELSE {node}

\* The nodes the descent of insert(x) stops at, on the tree held in the variables.
InsertVisits(x) == insert_visits(State, root, x, Fuel(State))

\* What insert_impl makes of node n when x is inserted, had it recursed into the
\* right child of n and relinked it.
ViaRight(n, x) == link_right(insert_impl(State, deref(State, n).right, x), n)

\* The same, had it recursed into the left child of n.
ViaLeft(n, x) == link_left(insert_impl(State, deref(State, n).left, x), n)

\* C16 as stated: at each non-empty node of the descent, an inserted element less
\* than the stored one makes insert_impl recurse into the right child, a greater
\* one into the left child.
C16_LessGoesRight ==
  \A x \in Elems : \A n \in InsertVisits(x) :
    /\ x < deref(State, n).elem => insert_impl(State, n, x) = ViaRight(n, x)
    /\ x > deref(State, n).elem => insert_impl(State, n, x) = ViaLeft(n, x)

\* C16, amended: at each non-empty node of the descent, an inserted element less
\* than the stored one makes insert_impl recurse into the left child, a greater
\* one into the right child (the stored element is the receiver of cmp, line 140).
C16_LessGoesLeft ==
  \A x \in Elems : \A n \in InsertVisits(x) :
    /\ x < deref(State, n).elem => insert_impl(State, n, x) = ViaLeft(n, x)
    /\ x > deref(State, n).elem => insert_impl(State, n, x) = ViaRight(n, x)

\* C16 happens: an insert has run, and the descent of some absent element passes
\* a node storing more than it and a node storing less than it.
C16_Witness ==
  /\ last.op = "insert"
  /\ \E x \in Elems \ model_set : \E n, k \in InsertVisits(x) :
       /\ x < deref(State, n).elem
       /\ x > deref(State, k).elem
       /\ insert_impl(State, n, x) = ViaLeft(n, x)
       /\ insert_impl(State, k, x) = ViaRight(k, x)

\* C17: inserting an element the set holds leaves the whole state as it is: the
\* root handle, every slot (links, colour, occupancy) and the free list.
C17_ReinsertChangesNothing ==
  \A x \in model_set : insert(State, x) = State

\* C17 happens: a tree of four or more elements with a red node and a freed
\* slot, on which inserting the root's element or a red node's element again
\* changes nothing.
C17_Witness ==
  /\ Cardinality(model_set) >= 4
  /\ deleted_indices # << >>
  /\ \E i \in Occupied :
       /\ nodes[i + 1].color = Red
       /\ insert(State, nodes[i + 1].elem) = State
  /\ insert(State, deref(State, root).elem) = State

\* C18: no node, red or black, has a red right child: every red node is the left
\* child of its parent.
C18_NoRedRightChild ==
  /\ \A j \in Occupied : ~is_red(State, nodes[j + 1].right)
  /\ \A i \in Occupied :
       nodes[i + 1].color = Red => \E j \in Occupied : nodes[j + 1].left = i

\* C18 happens: after a take_min that rearranged the tree, a red node hangs to
\* the left of its parent and the root has a black right child.
C18_Witness ==
  /\ last.op = "take_min"
  /\ Cardinality(Occupied) >= 4
  /\ \E j \in Occupied : is_red(State, nodes[j + 1].left)
  /\ deref(State, root).right # None
  /\ ~is_red(State, deref(State, root).right)

\* C19: is_empty() is true exactly when len() is 0: the root is absent if and
\* only if no arena slot is occupied.
C19_EmptyIffLenZero ==
  /\ is_empty(State) <=> len(State) = 0
  /\ root = None <=> Occupied = {}

\* C19 happens: a take_min has removed the last element, leaving the tree empty
\* with length 0.
C19_Witness ==
  /\ last.op = "take_min"
  /\ last.ret # None
  /\ is_empty(State)
  /\ len(State) = 0

RECURSIVE Pow2(_)
\* Two to the power k.
Pow2(k) == IF k = 0 THEN 1 ELSE 2 * Pow2(k - 1)

\* C20: the number h of nodes on the longest path from the root to an empty link
\* is at most 2 * log2(len() + 1), that is, 2^h <= (len() + 1)^2.
C20_HeightBound ==
  Pow2(TreeHeight) <= (len(State) + 1) * (len(State) + 1)

\* C20 happens: after a take_min, a tree of eleven or more elements has six
\* nodes on its longest path.
C20_Witness ==
  /\ last.op = "take_min"
  /\ len(State) >= 11
  /\ TreeHeight = 6
  /\ Pow2(TreeHeight) <= (len(State) + 1) * (len(State) + 1)

=============================================================================
